---- MODULE Spec2Model ----
(***************************************************************************)
(* A model of regfs-rs: the paginated directory enumerator (dir_enum.rs),  *)
(* the virtualization session (projfs.rs) and the registry backend         *)
(* (regfs.rs, reg_ops.rs, fs_helper.rs).                                   *)
(*                                                                         *)
(* Three specifications share the module:                                  *)
(*   SpecEnum     one SimpleDirEnumerator over an arbitrary sequence       *)
(*   SpecSession  ProjFs::start/stop/drop against OS worker threads        *)
(*   SpecBackend  the RegFs callbacks over a table of enumerators          *)
(***************************************************************************)
EXTENDS Integers, Sequences, FiniteSets, TLC

VARIABLES
    \* SpecEnum: one SimpleDirEnumerator and the record of what it delivered
    enumr,      \* the enumerator: [start, cur]
    pass,       \* the listing pass since the last (re)start
    first,      \* the first listing that ran to the end under one pattern
    call,       \* the last get_dir_enum call: its arguments and what it appended
    \* SpecSession: a ProjFs<B>, the OS it registers with, the worker threads
    state,              \* ProjFs::state
    instance_handle,    \* ProjFs::instance_handle
    features,           \* B::get_optional_features()
    root,               \* the root directory on disk
    os,                 \* the OS side: registered?, handle issued, callback table
    mainpc,             \* where the thread owning the ProjFs is inside start()
    lastOp,             \* the last start/stop/drop call and what it did
    ops,                \* calls made on the ProjFs so far
    dropped,            \* the ProjFs has been destroyed
    backendReleased,    \* the ProjFs's Box<Arc<B>> has been released
    setHandleCalls,     \* calls of B::set_instance_handle so far
    workers,            \* each OS worker thread: [pc, kind, found]
    lock,               \* holder of the backend's Mutex, None when free
    \* the backend's RegFsState behind the Mutex
    fs_helper,          \* SimpleFsHelper::instance_handle
    dir_enums,          \* HashMap<Uuid, DirEnumerator>: id -> None or Some(enumerator)
    \* SpecBackend: the registry the backend reads and the last callback
    registry,           \* [keys, values, denied, unreadable]
    last                \* the last callback: [op, id, known, kind, hr, out, req]

engVars == <<enumr, pass, first, call>>

sesVars == <<state, instance_handle, features, root, os, mainpc, lastOp, ops,
             dropped, backendReleased, setHandleCalls, workers, lock>>

bakVars == <<fs_helper, dir_enums, registry, last>>

vars == <<engVars, sesVars, bakVars>>

(***************************************************************************)
(* Bounds of the model.                                                    *)
(***************************************************************************)
\* longest source sequence handed to SimpleDirEnumerator::new
MaxLen == 3
\* largest directory entry buffer, in name characters
MaxCap == 2
\* a directory entry buffer with room for any whole listing of the model
RoomyCap == 64
\* start/stop/drop calls made on one ProjFs
MaxOps == 4
\* OS worker threads dispatching callbacks
MaxWorkers == 2

(***************************************************************************)
(* Option<T>: None is the empty tuple, Some(v) the one-element tuple.      *)
(***************************************************************************)
None == <<>>

Some(v) == <<v>>

IsNone(o) == o = None

UnwrapOr(o, d) == IF o = None THEN d ELSE o[1]

(***************************************************************************)
(* Names and search expressions are strings; Chars spells the ones the     *)
(* model uses and Code is the code unit that orders and matches them.      *)
(***************************************************************************)
Chars(s) ==
    CASE s = "a" -> <<"a">>
      [] s = "B" -> <<"B">>
      [] s = "a*" -> <<"a", "*">>
      [] s = "*" -> <<"*">>
      [] s = "?" -> <<"?">>
      [] s = "A*" -> <<"A", "*">>
      [] s = "A" -> <<"A">>
      [] s = "z" -> <<"z">>
      [] s = "HKEY_CLASSES_ROOT" ->
           <<"H", "K", "E", "Y", "_", "C", "L", "A", "S", "S", "E", "S", "_", "R", "O", "O", "T">>
      [] s = "HKEY_CURRENT_USER" ->
           <<"H", "K", "E", "Y", "_", "C", "U", "R", "R", "E", "N", "T", "_", "U", "S", "E", "R">>
      [] s = "HKEY_LOCAL_MACHINE" ->
           <<"H", "K", "E", "Y", "_", "L", "O", "C", "A", "L", "_", "M", "A", "C", "H", "I", "N", "E">>
      [] s = "HKEY_USERS" ->
           <<"H", "K", "E", "Y", "_", "U", "S", "E", "R", "S">>
      [] s = "HKEY_CURRENT_CONFIG" ->
           <<"H", "K", "E", "Y", "_", "C", "U", "R", "R", "E", "N", "T", "_", "C", "O", "N", "F", "I", "G">>
      [] OTHER -> <<>>

\* the UTF-8 / UTF-16 code unit of a character
Code(c) ==
    CASE c = "*" -> 42 [] c = "/" -> 47 [] c = "?" -> 63
      [] c = "A" -> 65 [] c = "B" -> 66 [] c = "C" -> 67 [] c = "E" -> 69
      [] c = "F" -> 70 [] c = "G" -> 71 [] c = "H" -> 72 [] c = "I" -> 73
      [] c = "K" -> 75 [] c = "L" -> 76 [] c = "M" -> 77 [] c = "N" -> 78
      [] c = "O" -> 79 [] c = "R" -> 82 [] c = "S" -> 83 [] c = "T" -> 84
      [] c = "U" -> 85 [] c = "Y" -> 89 [] c = "_" -> 95
      [] c = "a" -> 97 [] c = "b" -> 98 [] c = "z" -> 122
      [] OTHER -> 0

\* the OS matcher folds case: a lower-case letter matches its capital
Upper(c) == IF Code(c) >= 97 /\ Code(c) <= 122 THEN Code(c) - 32 ELSE Code(c)

\* PrjFileNameMatch on the spelled name and expression: '*' matches any run
\* of characters, '?' exactly one, every other character itself,
\* case-insensitively.
RECURSIVE GlobMatch(_, _)
GlobMatch(name, pat) ==
    IF pat = <<>> THEN name = <<>>
    ELSE IF Head(pat) = "*"
         THEN \/ GlobMatch(name, Tail(pat))
              \/ name # <<>> /\ GlobMatch(Tail(name), pat)
    ELSE IF name = <<>> THEN FALSE
    ELSE /\ \/ Head(pat) = "?"
            \/ Upper(Head(pat)) = Upper(Head(name))
         /\ GlobMatch(Tail(name), Tail(pat))

\* a matcher that knows no wildcard: the name has to spell the expression
PrjFileNameMatchExact(name, search_expr) == Chars(name) = Chars(search_expr)

PrjFileNameMatch(name, search_expr) == GlobMatch(Chars(name), Chars(search_expr))

\* the characters the file system refuses in a name (dir_enum.rs, branch 3)
InvalidChars == {"*", "/"}

NameIsInvalid(name) == \E i \in 1..Len(Chars(name)) : Chars(name)[i] \in InvalidChars

\* room one entry takes in the directory entry buffer
EntryCost(name) == Len(Chars(name))

\* PrjFillDirEntryBuffer: "ok", "full" (ERROR_INSUFFICIENT_BUFFER) or
\* "invalid" (any other error).  Which of the two failures the OS reports
\* for an invalid name that does not fit either is not documented: sizeFirst
\* chooses.
PrjFillDirEntryBuffer(name, room, sizeFirst) ==
    IF NameIsInvalid(name)
    THEN IF sizeFirst /\ EntryCost(name) > room THEN "full" ELSE "invalid"
    ELSE IF EntryCost(name) > room THEN "full" ELSE "ok"

\* PRJ_FILE_BASIC_INFO built from (name, len)
FileInfo(item) ==
    [name |-> item[1], IsDirectory |-> IsNone(item[2]), FileSize |-> UnwrapOr(item[2], 0)]

(***************************************************************************)
(* SimpleDirEnumerator                                                     *)
(***************************************************************************)
\* SimpleDirEnumerator::new: cur is a clone of the iterator, at its start.
\* cur is the index of the item peek() returns; Len(start)+1 is exhaustion.
NewEnumerator(items) == [start |-> items, cur |-> 1]

\* FillLoop with the buffer-full branch advancing past the entry it could
\* not append
RECURSIVE FillLoopAdvanceOnFull(_, _, _, _, _)
FillLoopAdvanceOnFull(items, cur, search_expr, room, sizeFirst) ==
    IF cur > Len(items) THEN [cur |-> cur, out |-> <<>>]
    ELSE LET item == items[cur]
             name == item[1]
         IN  IF ~PrjFileNameMatch(name, search_expr)
             THEN FillLoopAdvanceOnFull(items, cur + 1, search_expr, room, sizeFirst)
             ELSE LET res == PrjFillDirEntryBuffer(name, room, sizeFirst)
                  IN  CASE res = "ok" ->
                             LET r == FillLoopAdvanceOnFull(items, cur + 1, search_expr,
                                                            room - EntryCost(name), sizeFirst)
                             IN  [cur |-> r.cur, out |-> <<FileInfo(item)>> \o r.out]
                        [] res = "full" -> [cur |-> cur + 1, out |-> <<>>]
                        [] OTHER ->
                             FillLoopAdvanceOnFull(items, cur + 1, search_expr, room, sizeFirst)

\* FillLoop with the buffer-full branch stepping the cursor back by one entry
RECURSIVE FillLoopRetreatOnFull(_, _, _, _, _)
FillLoopRetreatOnFull(items, cur, search_expr, room, sizeFirst) ==
    IF cur > Len(items) THEN [cur |-> cur, out |-> <<>>]
    ELSE LET item == items[cur]
             name == item[1]
         IN  IF ~PrjFileNameMatch(name, search_expr)
             THEN FillLoopRetreatOnFull(items, cur + 1, search_expr, room, sizeFirst)
             ELSE LET res == PrjFillDirEntryBuffer(name, room, sizeFirst)
                  IN  CASE res = "ok" ->
                             LET r == FillLoopRetreatOnFull(items, cur + 1, search_expr,
                                      room - EntryCost(name), sizeFirst)
                             IN  [cur |-> r.cur, out |-> <<FileInfo(item)>> \o r.out]
                        [] res = "full" -> [cur |-> IF cur > 1 THEN cur - 1 ELSE cur, out |-> <<>>]
                        [] OTHER -> FillLoopRetreatOnFull(items, cur + 1, search_expr, room, sizeFirst)

\* FillLoop with the rejected-name branch ending the call on the entry
RECURSIVE FillLoopStopOnInvalid(_, _, _, _, _)
FillLoopStopOnInvalid(items, cur, search_expr, room, sizeFirst) ==
    IF cur > Len(items) THEN [cur |-> cur, out |-> <<>>]
    ELSE LET item == items[cur]
             name == item[1]
         IN  IF ~PrjFileNameMatch(name, search_expr)
             THEN FillLoopStopOnInvalid(items, cur + 1, search_expr, room, sizeFirst)
             ELSE LET res == PrjFillDirEntryBuffer(name, room, sizeFirst)
                  IN  CASE res = "ok" ->
                             LET r == FillLoopStopOnInvalid(items, cur + 1, search_expr,
                                      room - EntryCost(name), sizeFirst)
                             IN  [cur |-> r.cur, out |-> <<FileInfo(item)>> \o r.out]
                        [] res = "full" -> [cur |-> cur, out |-> <<>>]
                        [] OTHER -> [cur |-> cur, out |-> <<>>]

\* the while-let loop of get_dir_enum from cursor position cur with `room`
\* left in the buffer: the final cursor and the entries appended.
RECURSIVE FillLoop(_, _, _, _, _)
FillLoop(items, cur, search_expr, room, sizeFirst) ==
    IF cur > Len(items) THEN [cur |-> cur, out |-> <<>>]
    ELSE LET item == items[cur]
             name == item[1]
         IN  IF ~PrjFileNameMatch(name, search_expr)
             THEN FillLoop(items, cur + 1, search_expr, room, sizeFirst)
             ELSE LET res == PrjFillDirEntryBuffer(name, room, sizeFirst)
                  IN  CASE res = "ok" ->
                             LET r == FillLoop(items, cur + 1, search_expr,
                                               room - EntryCost(name), sizeFirst)
                             IN  [cur |-> r.cur, out |-> <<FileInfo(item)>> \o r.out]
                        [] res = "full" -> [cur |-> cur, out |-> <<>>]
                        [] OTHER ->
                             FillLoop(items, cur + 1, search_expr, room, sizeFirst)

\* RestartCursor with the restart flag ignored
RestartCursorIgnored(e, restart) == e.cur

\* RestartCursor with an exhausted cursor starting over by itself
RestartCursorWhenExhausted(e, restart) ==
    IF restart \/ e.cur > Len(e.start) THEN 1 ELSE e.cur

\* the cursor the loop starts from: the restart flag re-clones `start`
RestartCursor(e, restart) == IF restart THEN 1 ELSE e.cur

\* get_dir_enum on an enumerator that keeps no clone of its iterator: what
\* was passed is gone
EnumGetDirEnumConsuming(e, restart, search_expr, cap, sizeFirst) ==
    LET r == FillLoop(e.start, RestartCursor(e, restart), search_expr, cap, sizeFirst)
    IN  [enum |-> [start |-> SubSeq(e.start, r.cur, Len(e.start)), cur |-> 1],
         out |-> r.out]

\* get_dir_enum on enumerator e: [enum |-> e', out |-> entries appended]
EnumGetDirEnum(e, restart, search_expr, cap, sizeFirst) ==
    LET r == FillLoop(e.start, RestartCursor(e, restart), search_expr, cap, sizeFirst)
    IN  [enum |-> [start |-> e.start, cur |-> r.cur], out |-> r.out]

AtEnd(e) == e.cur > Len(e.start)

\* PRJ_NAMESPACE_VIRTUALIZATION_CONTEXT::default(), the null handle
DefaultHandle == 0

\* the handles PrjStartVirtualizing may issue
OsHandles == {1, 2}

(***************************************************************************)
(* reg_ops: the registry as the backend reads it.  A path is the tuple of  *)
(* its backslash-separated segments; a key is named by its full path.      *)
(***************************************************************************)
\* the names HKEYS maps to predefined handles
HKEYS ==
    {"HKEY_CLASSES_ROOT", "HKEY_CURRENT_USER", "HKEY_LOCAL_MACHINE", "HKEY_USERS",
     "HKEY_CURRENT_CONFIG"}

\* Result<T, E>
Ok(v) == [tag |-> "Ok", val |-> v]

Err(code) == [tag |-> "Err", code |-> code]

\* the registry compares key and value names without regard to case
FoldName(name) == [i \in 1..Len(Chars(name)) |-> Upper(Chars(name)[i])]

\* two subkey paths below a hive name the same key
SameSubPath(p, q) ==
    /\ Len(p) = Len(q)
    /\ \A i \in 1..Len(p) : FoldName(p[i]) = FoldName(q[i])

\* RegKey::open_subkey(path) on the predefined key hkey: Ok(Some(key)),
\* Ok(None) for "not found", Err(status) for any other failure
OpenSubkey(reg, hkey, path) ==
    LET found == {k \in reg.keys : k[1] = hkey /\ SameSubPath(Tail(k), path)}
    IN  IF found = {} THEN Ok(None)
        ELSE LET k == CHOOSE k \in found : TRUE
             IN  IF k \in reg.denied THEN Err("ERROR_ACCESS_DENIED") ELSE Ok(Some(k))

\* the Win32 code an io::Error gives as raw_os_error()
Win32Code(status) ==
    CASE status = "ERROR_FILE_NOT_FOUND" -> 2
      [] status = "ERROR_ACCESS_DENIED" -> 5

\* HRESULT(code): the raw code wrapped as it is, with no severity or
\* facility bits added
RawHresult(status) ==
    CASE status = "ERROR_FILE_NOT_FOUND" -> "HRESULT(2)"
      [] status = "ERROR_ACCESS_DENIED" -> "HRESULT(5)"

\* an HRESULT by its fields: the severity bit (31), the facility (bits 16 to
\* 26) and the code (bits 0 to 15)
Hresult(severity, facility, code) ==
    [severity |-> severity, facility |-> facility, code |-> code]

\* the fields of HRESULT(raw) for a raw Win32 code, which is below 2^31
FieldsOfRaw(raw) == Hresult(0, (raw \div 65536) % 2048, raw % 65536)

\* WIN32_ERROR::to_hresult: severity and FACILITY_WIN32 above the code
FromWin32(code) ==
    IF code = 0 THEN Hresult(0, 0, 0) ELSE Hresult(1, 7, code % 65536)

\* the fields of each HRESULT the program returns
HresultValue(hr) ==
    CASE hr = "S_OK" -> Hresult(0, 0, 0)
      [] hr = "HRESULT(2)" -> FieldsOfRaw(Win32Code("ERROR_FILE_NOT_FOUND"))
      [] hr = "HRESULT(5)" -> FieldsOfRaw(Win32Code("ERROR_ACCESS_DENIED"))
      [] hr = "ERROR_FILE_NOT_FOUND" -> FromWin32(Win32Code("ERROR_FILE_NOT_FOUND"))
      [] hr = "ERROR_ACCESS_DENIED" -> FromWin32(Win32Code("ERROR_ACCESS_DENIED"))
      [] hr = "E_FAIL" -> Hresult(1, 0, 16389)
      [] hr = "E_INVALIDARG" -> Hresult(1, 7, 87)
      [] hr = "E_OUTOFMEMORY" -> Hresult(1, 7, 14)
      [] hr = "STATUS_CANNOT_DELETE" -> Hresult(1, 0, 289)

\* HRESULT::is_err: the value is negative, that is the severity bit is set
IsErr(hr) == HresultValue(hr).severity = 1

\* the Err arm of open_key_internal and of read_value: the io::Error
\* becomes a windows Error around HRESULT(raw_os_error)
IoErrorToWindows(r) == IF r.tag = "Err" THEN Err(RawHresult(r.code)) ELSE r

\* open_key_internal(hkey, path)
OpenKeyInternal(reg, hkey, path) ==
    IF hkey \in HKEYS THEN IoErrorToWindows(OpenSubkey(reg, hkey, path)) ELSE Ok(None)

\* open_key(key): split_once('\\') separates the hive from the subkey path
OpenKey(reg, key) ==
    IF Len(key) >= 2 THEN OpenKeyInternal(reg, Head(key), Tail(key))
    ELSE IF Len(key) = 1 /\ Head(key) \in HKEYS THEN Ok(Some(key))
    ELSE Ok(None)

\* does_key_exist(key)
DoesKeyExist(reg, key) ==
    IF Len(key) >= 2
    THEN LET k == OpenKeyInternal(reg, Head(key), Tail(key))
         IN  IF k.tag = "Err" THEN k ELSE Ok(k.val # None)
    ELSE Ok(Len(key) = 1 /\ Head(key) \in HKEYS)

\* RegKey::get_raw_value(name) on key k: the value of that name, names
\* compared without regard to case
GetRawValue(reg, k, name) ==
    LET found == {v \in reg.values : v.key = k /\ FoldName(v.name) = FoldName(name)}
    IN  IF found = {} THEN Ok(None)
        ELSE LET v == CHOOSE v \in found : TRUE
             IN  IF v \in reg.unreadable THEN Err("ERROR_ACCESS_DENIED")
                 ELSE Ok(Some(v))

\* read_value(path): rsplit_once('\\') separates the value name from the key
ReadValue(reg, path) ==
    IF Len(path) >= 2
    THEN LET k == OpenKey(reg, SubSeq(path, 1, Len(path) - 1))
         IN  IF k.tag = "Err" THEN k
             ELSE IF k.val = None THEN Ok(None)
             ELSE IoErrorToWindows(GetRawValue(reg, k.val[1], path[Len(path)]))
    ELSE Ok(None)

\* RegKey::enum_keys: the names of the subkeys of key k
EnumKeys(reg, k) == {sub[Len(sub)] : sub \in {q \in reg.keys : Len(q) = Len(k) + 1
                                                  /\ SubSeq(q, 1, Len(k)) = k}}

\* RegKey::enum_values: the (name, value) pairs of key k
EnumValues(reg, k) == {v \in reg.values : v.key = k}

(***************************************************************************)
(* The order of (String, Option<u32>) that sort_unstable uses.             *)
(***************************************************************************)
RECURSIVE CodesLess(_, _)
CodesLess(a, b) ==
    IF b = <<>> THEN FALSE
    ELSE IF a = <<>> THEN TRUE
    ELSE IF Code(Head(a)) # Code(Head(b)) THEN Code(Head(a)) < Code(Head(b))
    ELSE CodesLess(Tail(a), Tail(b))

\* None sorts before Some, Some by its value
OptionLess(x, y) ==
    IF x = None THEN y # None
    ELSE y # None /\ x[1] < y[1]

ItemLess(x, y) ==
    \/ CodesLess(Chars(x[1]), Chars(y[1]))
    \/ x[1] = y[1] /\ OptionLess(x[2], y[2])

\* the items of a set in ascending order
RECURSIVE SortedItems(_)
SortedItems(S) ==
    IF S = {} THEN <<>>
    ELSE LET m == CHOOSE x \in S : \A y \in S \ {x} : ItemLess(x, y)
         IN  <<m>> \o SortedItems(S \ {m})

(***************************************************************************)
(* RegFs: the ProjFsBackend over the registry                              *)
(***************************************************************************)
EnumIds == {"id1", "id2"}

\* a FilePathName that is not valid UTF-16
BadPath == <<"?">>

\* get_req_path
GetReqPath(path) == IF path = BadPath THEN Err("FromUtf16Error") ELSE Ok(path)

\* the twelve NotificationKind values
NotificationKinds ==
    {"FileOpened", "NewFileCreated", "FileOverwritten", "PreDelete", "PreRename",
     "PreSetHardlink", "FileRenamed", "HardlinkCreated",
     "FileHandleClosedNoModification", "FileHandleClosedFileModified",
     "FileHandleClosedFileDeleted", "FilePreConvertToFull"}

\* notify with the PreRename arm missing: a rename falls to the catch-all arm
NotifyResultRenameAllowed(kind) ==
    CASE kind = "PreDelete" -> "ERROR_ACCESS_DENIED"
      [] OTHER -> "S_OK"

\* RegFs::notify: the HRESULT of the match on kind
NotifyResult(kind) ==
    CASE kind = "FileOpened" -> "S_OK"
      [] kind = "NewFileCreated" -> "S_OK"
      [] kind \in {"FileOverwritten", "FileHandleClosedFileModified"} -> "S_OK"
      [] kind = "FileRenamed" -> "S_OK"
      [] kind = "FileHandleClosedFileDeleted" -> "S_OK"
      [] kind = "PreDelete" -> "ERROR_ACCESS_DENIED"
      [] kind = "PreRename" -> "STATUS_CANNOT_DELETE"
      [] OTHER -> "S_OK"

\* start_dir_enum listing only the values of key k
KeyItemsValuesOnly(reg, k) ==
    SortedItems({<<v.name, Some(Len(v.bytes))>> : v \in EnumValues(reg, k)})

\* the items start_dir_enum collects for key k, sorted
KeyItems(reg, k) ==
    SortedItems({<<n, None>> : n \in EnumKeys(reg, k)}
                \cup {<<v.name, Some(Len(v.bytes))>> : v \in EnumValues(reg, k)})

\* the hive names in the order the HashMap was filled
RootItemsInsertionOrder ==
    <<<<"HKEY_CLASSES_ROOT", None>>, <<"HKEY_CURRENT_USER", None>>,
      <<"HKEY_LOCAL_MACHINE", None>>, <<"HKEY_USERS", None>>,
      <<"HKEY_CURRENT_CONFIG", None>>>>

\* the items of the root directory: HKEYS.keys() as directories, sorted
RootItems == SortedItems({<<h, None>> : h \in HKEYS})

\* a missing key answered with an empty listing
NoSuchKeyEmptyListing == Ok([hr |-> "S_OK", enum |-> Some(NewEnumerator(<<>>))])

\* the arm of start_dir_enum for a key that does not exist: the early return
\* before the insert
NoSuchKey == Ok([hr |-> "ERROR_FILE_NOT_FOUND", enum |-> None])

\* the closure of start_dir_enum: Ok([hr, enum]) or Err(hr); enum is
\* None when no enumerator is inserted.  enumFails is the outcome of
\* enum_keys / enum_values, whose io::Error is no windows Error, so that
\* the downcast fails and E_FAIL is returned.
StartDirEnumResult(reg, reqPath, enumFails) ==
    LET p == GetReqPath(reqPath)
    IN  IF p.tag = "Err" THEN Err("E_FAIL")
        ELSE IF p.val = <<>>
             THEN Ok([hr |-> "S_OK", enum |-> Some(NewEnumerator(RootItems))])
        ELSE LET k == OpenKey(reg, p.val)
             IN  IF k.tag = "Err" THEN Err(k.code)
                 ELSE IF k.val = None THEN NoSuchKey
                 ELSE IF enumFails THEN Err("E_FAIL")
                 ELSE Ok([hr |-> "S_OK",
                          enum |-> Some(NewEnumerator(KeyItems(reg, k.val[1])))])

\* what a callback was asked and what it handed to the OS: the request
\* path, the requested byte range, the outcome of the enumeration of
\* subkeys and values, the PRJ_PLACEHOLDER_INFO given to
\* PrjWritePlaceholderInfo and the (buffer, offset) given to PrjWriteFileData
Request(path, byte_offset, length, enumFails, placeholder, data) ==
    [path |-> path, byte_offset |-> byte_offset, length |-> length,
     enumFails |-> enumFails, placeholder |-> placeholder, data |-> data]

NoRequest == Request(<<>>, 0, 0, FALSE, None, None)

CallRecord(op, id, known, kind, hr, out, req) ==
    [op |-> op, id |-> id, known |-> known, kind |-> kind, hr |-> hr, out |-> out,
     req |-> req]

\* `known`: the id had an enumerator in the table when the callback came
LastRecord(op, id, known, kind, hr, out) ==
    CallRecord(op, id, known, kind, hr, out, NoRequest)

\* HashMap::remove dropping every enumerator
TableRemoveAll(table, id) == [i \in DOMAIN table |-> None]

\* HashMap::remove(&id)
TableRemove(table, id) == [table EXCEPT ![id] = None]

\* an insert that keeps the enumerator an id already has
TableInsertIfAbsent(table, id, enumerator) ==
    IF table[id] # None THEN table ELSE [table EXCEPT ![id] = Some(enumerator)]

\* HashMap::insert(id, enumerator)
TableInsert(table, id, enumerator) == [table EXCEPT ![id] = Some(enumerator)]

\* the HRESULT end_dir_enum returns: remove()'s result is not looked at
EndDirEnumResult(table, id) == "S_OK"

\* RegFs::start_dir_enum
StartDirEnum(id, reqPath, enumFails) ==
    \E r \in {StartDirEnumResult(registry, reqPath, enumFails)} :
        /\ dir_enums' = IF r.tag = "Ok" /\ r.val.enum # None
                        THEN TableInsert(dir_enums, id, r.val.enum[1])
                        ELSE dir_enums
        /\ last' = CallRecord("start_dir_enum", id, dir_enums[id] # None, "none",
                              IF r.tag = "Ok" THEN r.val.hr ELSE r.code, <<>>,
                              Request(reqPath, 0, 0, enumFails, None, None))
        /\ UNCHANGED <<fs_helper, registry>>

\* RegFs::end_dir_enum
EndDirEnum(id) ==
    /\ dir_enums' = TableRemove(dir_enums, id)
    /\ last' = LastRecord("end_dir_enum", id, dir_enums[id] # None, "none",
                       EndDirEnumResult(dir_enums, id), <<>>)
    /\ UNCHANGED <<fs_helper, registry>>

\* RegFs::get_dir_enum
GetDirEnum(id, restart, search_expr, cap, sizeFirst) ==
    \/ /\ dir_enums[id] = None
       /\ last' = LastRecord("get_dir_enum", id, FALSE, "none", "E_INVALIDARG", <<>>)
       /\ UNCHANGED <<fs_helper, registry, dir_enums>>
    \/ /\ dir_enums[id] # None
       /\ \E r \in {EnumGetDirEnum(dir_enums[id][1], restart, search_expr, cap, sizeFirst)} :
             /\ dir_enums' = [dir_enums EXCEPT ![id] = Some(r.enum)]
             /\ last' = LastRecord("get_dir_enum", id, TRUE, "none", "S_OK", r.out)
       /\ UNCHANGED <<fs_helper, registry>>

\* PRJ_PLACEHOLDER_INFO with every entry marked as a file
WritePlaceholderInfoAlwaysFile(file_size) ==
    [IsDirectory |-> FALSE, FileSize |-> UnwrapOr(file_size, 0)]

\* write_placeholder_info: the PRJ_PLACEHOLDER_INFO built from file_size
WritePlaceholderInfo(file_size) ==
    [IsDirectory |-> IsNone(file_size), FileSize |-> UnwrapOr(file_size, 0)]

\* the HRESULT of an OS call the helper forwards
OsResult(ok) == IF ok THEN "S_OK" ELSE "ERROR_ACCESS_DENIED"

\* the closure of get_placeholder_info: [hr, placeholder]; writeOk is the
\* outcome of PrjWritePlaceholderInfo
GetPlaceholderInfoResult(reg, reqPath, writeOk) ==
    LET p == GetReqPath(reqPath)
    IN  IF p.tag = "Err" THEN [hr |-> "E_FAIL", placeholder |-> None]
        ELSE LET e == DoesKeyExist(reg, p.val)
             IN  IF e.tag = "Err" THEN [hr |-> e.code, placeholder |-> None]
                 ELSE IF e.val
                      THEN [hr |-> OsResult(writeOk),
                            placeholder |-> Some(WritePlaceholderInfo(None))]
                 ELSE LET v == ReadValue(reg, p.val)
                      IN  IF v.tag = "Err" THEN [hr |-> v.code, placeholder |-> None]
                          ELSE IF v.val # None
                               THEN [hr |-> OsResult(writeOk),
                                     placeholder |->
                                         Some(WritePlaceholderInfo(Some(Len(v.val[1].bytes))))]
                          ELSE [hr |-> "ERROR_FILE_NOT_FOUND", placeholder |-> None]

\* RegFs::get_placeholder_info
GetPlaceholderInfo(reqPath, writeOk) ==
    \E r \in {GetPlaceholderInfoResult(registry, reqPath, writeOk)} :
        /\ last' = CallRecord("get_placeholder_info", "none", FALSE, "none", r.hr, <<>>,
                              Request(reqPath, 0, 0, FALSE, r.placeholder, None))
        /\ UNCHANGED <<fs_helper, registry, dir_enums>>

\* write_file_data given the requested offset instead of 0
WriteFileDataAtRequestedOffset(bytes, byte_offset, length) ==
    [bytes |-> bytes, byte_offset |-> byte_offset]

\* the buffer and the offset get_file_data gives to write_file_data: the
\* whole value, at offset 0
WriteFileData(bytes, byte_offset, length) == [bytes |-> bytes, byte_offset |-> 0]

\* the closure of get_file_data: [hr, data]; allocOk and writeOk are the
\* outcomes of PrjAllocateAlignedBuffer and PrjWriteFileData
GetFileDataResult(reg, reqPath, byte_offset, length, allocOk, writeOk) ==
    LET p == GetReqPath(reqPath)
    IN  IF p.tag = "Err" THEN [hr |-> "E_FAIL", data |-> None]
        ELSE LET v == ReadValue(reg, p.val)
             IN  IF v.tag = "Err" THEN [hr |-> v.code, data |-> None]
                 ELSE IF v.val = None THEN [hr |-> "ERROR_FILE_NOT_FOUND", data |-> None]
                 ELSE IF ~allocOk THEN [hr |-> "E_OUTOFMEMORY", data |-> None]
                 ELSE [hr |-> OsResult(writeOk),
                       data |-> Some(WriteFileData(v.val[1].bytes, byte_offset, length))]

\* RegFs::get_file_data
GetFileData(reqPath, byte_offset, length, allocOk, writeOk) ==
    \E r \in {GetFileDataResult(registry, reqPath, byte_offset, length, allocOk, writeOk)} :
        /\ last' = CallRecord("get_file_data", "none", FALSE, "none", r.hr, <<>>,
                              Request(reqPath, byte_offset, length, FALSE, None, r.data))
        /\ UNCHANGED <<fs_helper, registry, dir_enums>>

\* RegFs::notify
Notify(kind) ==
    /\ last' = LastRecord("notify", "none", FALSE, kind, NotifyResult(kind), <<>>)
    /\ UNCHANGED <<fs_helper, registry, dir_enums>>

\* the registries the backend is run against
HKCU == "HKEY_CURRENT_USER"

Registries ==
    {[keys |-> {<<HKCU, "a">>, <<HKCU, "a", "B">>},
      values |-> {[key |-> <<HKCU>>, name |-> "a", bytes |-> <<7, 9>>],
                  [key |-> <<HKCU>>, name |-> "B", bytes |-> <<>>],
                  [key |-> <<HKCU>>, name |-> "a*", bytes |-> <<5>>],
                  [key |-> <<HKCU, "a">>, name |-> "B", bytes |-> <<3, 3>>]},
      denied |-> {}, unreadable |-> {}],
     [keys |-> {<<HKCU, "B">>},
      values |-> {[key |-> <<"HKEY_USERS">>, name |-> "a", bytes |-> <<>>],
                  [key |-> <<"HKEY_USERS">>, name |-> "B", bytes |-> <<5>>]},
      denied |-> {<<HKCU, "B">>},
      unreadable |-> {[key |-> <<"HKEY_USERS">>, name |-> "B", bytes |-> <<5>>]}],
     [keys |-> {}, values |-> {}, denied |-> {}, unreadable |-> {}]}

\* the paths the OS asks about
ReqPaths ==
    {<<>>, <<HKCU>>, <<HKCU, "a">>, <<HKCU, "A">>, <<HKCU, "B">>, <<HKCU, "a", "B">>,
     <<HKCU, "B", "a">>, <<HKCU, "z", "a">>, <<HKCU, "a*">>,
     <<"HKEY_USERS">>, <<"HKEY_USERS", "a">>, <<"HKEY_USERS", "B">>,
     <<"z">>, <<"z", "a">>, BadPath}

\* the (byte_offset, length) ranges the OS asks get_file_data for
ByteRanges == {<<0, 0>>, <<0, 2>>, <<1, 1>>}

\* the outcomes (allocOk, writeOk) of PrjAllocateAlignedBuffer and
\* PrjWriteFileData; nothing is written into a buffer that was not allocated
OsOutcomes == {<<TRUE, TRUE>>, <<TRUE, FALSE>>, <<FALSE, FALSE>>}

\* RegFs::new followed by set_instance_handle
BakInit ==
    /\ fs_helper = CHOOSE h \in OsHandles : TRUE
    /\ dir_enums = [id \in EnumIds |-> None]
    /\ registry \in Registries
    /\ last = LastRecord("new", "none", FALSE, "none", "S_OK", <<>>)

(***************************************************************************)
(* ProjFs<B>: the virtualization session                                   *)
(***************************************************************************)
\* the capability sets a backend may declare (RegFs declares {"NOTIFY"})
FeatureSets ==
    {{}, {"NOTIFY"}, {"QUERY_FILE_NAME", "CANCEL_COMMAND"},
     {"NOTIFY", "QUERY_FILE_NAME", "CANCEL_COMMAND"}}

\* create_callbacks with the notification callback registered whatever the
\* backend declares
CreateCallbacksAlwaysNotify(feats) ==
    [StartDirectoryEnumerationCallback |-> Some("start_dir_enum_cb"),
     EndDirectoryEnumerationCallback |-> Some("end_dir_enum_cb"),
     GetDirectoryEnumerationCallback |-> Some("get_dir_enum_cb"),
     GetPlaceholderInfoCallback |-> Some("get_placeholder_info_cb"),
     GetFileDataCallback |-> Some("get_file_data_cb"),
     QueryFileNameCallback |-> None,
     NotificationCallback |-> Some("notification_cb"),
     CancelCommandCallback |-> None]

\* ProjFs::create_callbacks: the PRJ_CALLBACKS table
CreateCallbacks(feats) ==
    [StartDirectoryEnumerationCallback |-> Some("start_dir_enum_cb"),
     EndDirectoryEnumerationCallback |-> Some("end_dir_enum_cb"),
     GetDirectoryEnumerationCallback |-> Some("get_dir_enum_cb"),
     GetPlaceholderInfoCallback |-> Some("get_placeholder_info_cb"),
     GetFileDataCallback |-> Some("get_file_data_cb"),
     QueryFileNameCallback |-> None,
     NotificationCallback |->
         IF "NOTIFY" \in feats THEN Some("notification_cb") ELSE None,
     CancelCommandCallback |-> None]

\* the table before any registration
NoCallbacks ==
    [StartDirectoryEnumerationCallback |-> None,
     EndDirectoryEnumerationCallback |-> None,
     GetDirectoryEnumerationCallback |-> None,
     GetPlaceholderInfoCallback |-> None,
     GetFileDataCallback |-> None,
     QueryFileNameCallback |-> None,
     NotificationCallback |-> None,
     CancelCommandCallback |-> None]

\* the backend methods the callbacks of the table lead to
CallbackKinds ==
    {"start_dir_enum", "end_dir_enum", "get_dir_enum", "get_placeholder_info",
     "get_file_data", "notify"}

\* the table entry the OS calls for a request of the given kind
CallbackOf(table, kind) ==
    CASE kind = "start_dir_enum" -> table.StartDirectoryEnumerationCallback
      [] kind = "end_dir_enum" -> table.EndDirectoryEnumerationCallback
      [] kind = "get_dir_enum" -> table.GetDirectoryEnumerationCallback
      [] kind = "get_placeholder_info" -> table.GetPlaceholderInfoCallback
      [] kind = "get_file_data" -> table.GetFileDataCallback
      [] OTHER -> table.NotificationCallback

\* get_file_data reading the registry without the lock
LockingKindsNoFileData == CallbackKinds \ {"notify", "get_file_data"}

\* the backend methods that lock RegFs::state for their body
LockingKinds == CallbackKinds \ {"notify"}

\* the backend methods whose body hands fs_helper's instance handle to the OS
\* when the requested path resolves
HandleKinds == {"get_placeholder_info", "get_file_data"}

\* the root directories a session may find on disk
InitialRoots ==
    {[dir |-> "absent", marker |-> "none", placeholder |-> FALSE],
     [dir |-> "dir", marker |-> "none", placeholder |-> FALSE],
     [dir |-> "dir", marker |-> "bad", placeholder |-> FALSE],
     [dir |-> "dir", marker |-> "valid", placeholder |-> TRUE],
     [dir |-> "dir", marker |-> "none", placeholder |-> TRUE],
     [dir |-> "file", marker |-> "none", placeholder |-> FALSE]}

\* ensure_virtualization_root taking any directory that exists for a root
EnsureVirtualizationRootAnyMarker(r, createOk, writeOk, markOk) ==
    IF r.dir = "absent"
    THEN IF ~createOk THEN [ok |-> FALSE, root |-> r]
         ELSE IF ~writeOk
              THEN [ok |-> FALSE,
                    root |-> [dir |-> "dir", marker |-> "none", placeholder |-> FALSE]]
         ELSE IF ~markOk
              THEN [ok |-> FALSE,
                    root |-> [dir |-> "dir", marker |-> "valid", placeholder |-> FALSE]]
         ELSE [ok |-> TRUE,
               root |-> [dir |-> "dir", marker |-> "valid", placeholder |-> TRUE]]
    ELSE [ok |-> r.dir = "dir", root |-> r]

\* ProjFs::ensure_virtualization_root: [ok, root].  createOk, writeOk and
\* markOk are the outcomes of create_dir (other than AlreadyExists), of
\* writing .projfs-id and of PrjMarkDirectoryAsPlaceholder.
EnsureVirtualizationRoot(r, createOk, writeOk, markOk) ==
    IF r.dir = "absent"
    THEN IF ~createOk THEN [ok |-> FALSE, root |-> r]
         ELSE IF ~writeOk
              THEN [ok |-> FALSE,
                    root |-> [dir |-> "dir", marker |-> "none", placeholder |-> FALSE]]
         ELSE IF ~markOk
              THEN [ok |-> FALSE,
                    root |-> [dir |-> "dir", marker |-> "valid", placeholder |-> FALSE]]
         ELSE [ok |-> TRUE,
               root |-> [dir |-> "dir", marker |-> "valid", placeholder |-> TRUE]]
    ELSE \* AlreadyExists: read and parse .projfs-id
         [ok |-> r.dir = "dir" /\ r.marker = "valid", root |-> r]

\* PrjStartVirtualizing on the root path: the OS starts an instance only on a
\* directory that PrjMarkDirectoryAsPlaceholder has made a virtualization
\* root, and returns an error for any other
PrjStartVirtualizingAccepts(r) == r.dir = "dir" /\ r.placeholder

\* the check at the head of start(), dropped
StartAllowedAlways(st) == TRUE

\* the check at the head of start()
StartAllowed(st) == st = "Ready"

\* the check at the head of stop(), dropped
StopAllowedAlways(st) == TRUE

\* the check at the head of stop()
StopAllowed(st) == st = "Running"

\* Drop::drop never stopping the session
DropStopsNever(st) == FALSE

\* Drop::drop stops a session that is still running
DropStops(st) == st = "Running"

\* start() assigning the state before it registers
StateOnStartErrorRunning(st) == "Running"

\* the state start() leaves when `?` returns an error: line 146 was not reached
StateOnStartError(st) == st

\* PrjStopVirtualizing(h): the OS side afterwards
PrjStopVirtualizing(o, h) ==
    IF o.registered /\ o.handle = h
    THEN [registered |-> FALSE, handle |-> o.handle, callbacks |-> o.callbacks]
    ELSE o

IdleWorker == [pc |-> "idle", kind |-> "none", found |-> FALSE]

Workers == 1..MaxWorkers

AllIdle == \A t \in Workers : workers[t].pc = "idle"

OpRecord(op, from, outcome, effects) ==
    [op |-> op, from |-> from, outcome |-> outcome, effects |-> effects]

\* ProjFs::new with a backend from B::new
SesInit ==
    /\ state = "Ready"
    /\ instance_handle = DefaultHandle
    /\ features \in FeatureSets
    /\ root \in InitialRoots
    /\ os = [registered |-> FALSE, handle |-> DefaultHandle, callbacks |-> NoCallbacks]
    /\ mainpc = "idle"
    /\ lastOp = OpRecord("new", "Ready", "ok", {})
    /\ ops = 0
    /\ dropped = FALSE
    /\ backendReleased = FALSE
    /\ setHandleCalls = 0
    /\ workers = [t \in Workers |-> IdleWorker]
    /\ lock = None
    /\ fs_helper = DefaultHandle
    /\ dir_enums = [id \in EnumIds |-> None]
    /\ registry = [keys |-> {}, values |-> {}, denied |-> {}, unreadable |-> {}]
    /\ last = LastRecord("new", "none", FALSE, "none", "S_OK", <<>>)

\* the thread that owns the ProjFs may make its next call
MainMayCall == ~dropped /\ mainpc = "idle" /\ ops < MaxOps

\* start() in a wrong state: the panic at its head
StartPanic ==
    /\ MainMayCall
    /\ ~StartAllowed(state)
    /\ lastOp' = OpRecord("start", state, "panic", {})
    /\ ops' = ops + 1
    /\ UNCHANGED <<state, instance_handle, features, root, os, mainpc, dropped,
                   backendReleased, setHandleCalls, workers, lock, fs_helper,
                   dir_enums, registry, last>>

\* start() up to the return of PrjStartVirtualizing
StartBegin ==
    /\ MainMayCall
    /\ StartAllowed(state)
    /\ \E createOk \in BOOLEAN, writeOk \in BOOLEAN, markOk \in BOOLEAN :
       \E e \in {EnsureVirtualizationRoot(root, createOk, writeOk, markOk)} :
          /\ root' = e.root
          /\ ops' = ops + 1
          /\ \/ /\ ~e.ok
                /\ lastOp' = OpRecord("start", state, "err_config", {"ensure_root"})
                /\ state' = StateOnStartError(state)
                /\ UNCHANGED <<os, mainpc>>
             \/ /\ e.ok
                /\ lastOp' = OpRecord("start", state, "err_platform",
                                      {"ensure_root", "PrjStartVirtualizing"})
                /\ state' = StateOnStartError(state)
                /\ UNCHANGED <<os, mainpc>>
             \/ /\ e.ok
                /\ PrjStartVirtualizingAccepts(e.root)
                /\ \E h \in OsHandles :
                      os' = [registered |-> TRUE, handle |-> h,
                             callbacks |-> CreateCallbacks(features)]
                /\ mainpc' = "registered"
                /\ lastOp' = OpRecord("start", state, "running",
                                      {"ensure_root", "PrjStartVirtualizing"})
                /\ UNCHANGED state
    /\ UNCHANGED <<instance_handle, features, dropped, backendReleased,
                   setHandleCalls, workers, lock, fs_helper,
                   dir_enums, registry, last>>

\* start() after PrjStartVirtualizing returned the handle os.handle:
\* set_instance_handle (which locks the backend), then the two assignments
StartFinish ==
    /\ mainpc = "registered"
    /\ lock = None
    /\ fs_helper' = os.handle
    /\ setHandleCalls' = setHandleCalls + 1
    /\ instance_handle' = os.handle
    /\ state' = "Running"
    /\ mainpc' = "idle"
    /\ lastOp' = OpRecord("start", lastOp.from, "ok",
                          lastOp.effects \cup {"set_instance_handle"})
    /\ UNCHANGED <<features, root, os, ops, dropped, backendReleased, workers, lock,
                   dir_enums, registry, last>>

\* stop() in a wrong state: the panic at its head
StopPanic ==
    /\ MainMayCall
    /\ ~StopAllowed(state)
    /\ lastOp' = OpRecord("stop", state, "panic", {})
    /\ ops' = ops + 1
    /\ UNCHANGED <<state, instance_handle, features, root, os, mainpc, dropped,
                   backendReleased, setHandleCalls, workers, lock, fs_helper,
                   dir_enums, registry, last>>

\* stop(): called once no callback is in flight
Stop ==
    /\ MainMayCall
    /\ StopAllowed(state)
    /\ AllIdle
    /\ os' = PrjStopVirtualizing(os, instance_handle)
    /\ state' = "Stopped"
    /\ lastOp' = OpRecord("stop", state, "ok", {"PrjStopVirtualizing"})
    /\ ops' = ops + 1
    /\ UNCHANGED <<instance_handle, features, root, mainpc, dropped,
                   backendReleased, setHandleCalls, workers, lock, fs_helper,
                   dir_enums, registry, last>>

\* the ProjFs goes out of scope: Drop::drop runs first
DropBegin ==
    /\ ~dropped
    /\ mainpc = "idle"
    /\ \/ /\ DropStops(state)
          /\ StopAllowed(state)
          /\ AllIdle
          /\ os' = PrjStopVirtualizing(os, instance_handle)
          /\ state' = "Stopped"
          /\ lastOp' = OpRecord("drop", state, "ok", {"PrjStopVirtualizing"})
       \/ /\ ~DropStops(state)
          /\ lastOp' = OpRecord("drop", state, "ok", {})
          /\ UNCHANGED <<os, state>>
    /\ mainpc' = "drop_fields"
    /\ ops' = ops + 1
    /\ UNCHANGED <<instance_handle, features, root, dropped, backendReleased,
                   setHandleCalls, workers, lock, fs_helper,
                   dir_enums, registry, last>>

\* then the fields are dropped, the Box<Arc<B>> among them
DropFields ==
    /\ mainpc = "drop_fields"
    /\ dropped' = TRUE
    /\ backendReleased' = TRUE
    /\ mainpc' = "gone"
    /\ UNCHANGED <<state, instance_handle, features, root, os, lastOp, ops,
                   setHandleCalls, workers, lock, fs_helper,
                   dir_enums, registry, last>>

\* the OS hands a request to worker t through the registered table; `found`
\* tells, for the two methods that use the handle, whether the path resolves
Dispatch(t, kind, found) ==
    /\ os.registered
    /\ workers[t].pc = "idle"
    /\ CallbackOf(os.callbacks, kind) # None
    /\ found => kind \in HandleKinds
    /\ workers' = [workers EXCEPT ![t] = [pc |-> "called", kind |-> kind, found |-> found]]
    /\ UNCHANGED <<state, instance_handle, features, root, os, mainpc, lastOp, ops,
                   dropped, backendReleased, setHandleCalls, lock, fs_helper,
                   dir_enums, registry, last>>

\* the backend method starts its body: self.state.lock() for the data path
EnterBody(t) ==
    /\ workers[t].pc = "called"
    /\ \/ /\ workers[t].kind \in LockingKinds
          /\ lock = None
          /\ lock' = Some(t)
       \/ /\ workers[t].kind \notin LockingKinds
          /\ UNCHANGED lock
    /\ workers' = [workers EXCEPT ![t].pc = "body"]
    /\ UNCHANGED <<state, instance_handle, features, root, os, mainpc, lastOp, ops,
                   dropped, backendReleased, setHandleCalls, fs_helper,
                   dir_enums, registry, last>>

\* the backend method returns, releasing the lock it holds
ReturnFromBody(t) ==
    /\ workers[t].pc = "body"
    /\ lock' = IF lock = Some(t) THEN None ELSE lock
    /\ workers' = [workers EXCEPT ![t] = IdleWorker]
    /\ UNCHANGED <<state, instance_handle, features, root, os, mainpc, lastOp, ops,
                   dropped, backendReleased, setHandleCalls, fs_helper,
                   dir_enums, registry, last>>

(***************************************************************************)
(* SpecEnum: one enumerator over an arbitrary source sequence, driven by   *)
(* get_dir_enum calls with any restart flag, search expression and buffer. *)
(***************************************************************************)
\* the (name, len) items of the source sequences: a directory, a file, and
\* a file whose name the file system refuses
EngineItems == {<<"a", None>>, <<"B", Some(2)>>, <<"a*", Some(1)>>}

\* everything, a prefix in the other case, any one character (which no
\* two-character name matches)
SearchExprs == {"*", "A*", "?"}

SeqsUpTo(S, n) == UNION {[1..k -> S] : k \in 0..n}

\* the buffers the OS hands to get_dir_enum: small ones, and a roomy one
BufferCaps == (0..MaxCap) \cup {RoomyCap}

\* a pass nothing has been listed in yet; `restarted` tells a pass begun by
\* a restart flag from the one begun by SimpleDirEnumerator::new
NewPass(restarted) ==
    [pat |-> None, mixed |-> FALSE, out |-> <<>>, appends |-> "none",
     restarted |-> restarted]

\* counting the calls of a pass that appended something: none, one, several
MoreAppends(n) == IF n = "none" THEN "one" ELSE "several"

\* the pass after a call with search expression `pat` appended `out`
PassAfter(p, restart, pat, out) ==
    LET b == IF restart THEN NewPass(TRUE) ELSE p
    IN  [pat |-> Some(pat),
         mixed |-> b.mixed \/ (b.pat # None /\ b.pat # Some(pat)),
         out |-> b.out \o out,
         appends |-> IF out # <<>> THEN MoreAppends(b.appends) ELSE b.appends,
         restarted |-> b.restarted]

\* a get_dir_enum call on an enumerator whose cursor stood at `from`: the
\* restart flag, the search expression, the room in the buffer and the
\* entries appended
CallRecordOf(from, restart, search_expr, cap, out) ==
    [from |-> from, restart |-> restart, search_expr |-> search_expr, cap |-> cap,
     out |-> out]

NoCall == CallRecordOf(0, FALSE, "", 0, <<>>)

EngInit ==
    /\ enumr \in {NewEnumerator(s) : s \in SeqsUpTo(EngineItems, MaxLen)}
    /\ pass = NewPass(FALSE)
    /\ first = None
    /\ call = NoCall
    /\ SesInit
    /\ features = {"NOTIFY"}
    /\ root = [dir |-> "absent", marker |-> "none", placeholder |-> FALSE]

\* one get_dir_enum call on the enumerator
EngGetDirEnum(restart, pat, cap, sizeFirst) ==
    \E r \in {EnumGetDirEnum(enumr, restart, pat, cap, sizeFirst)} :
    \E p \in {PassAfter(pass, restart, pat, r.out)} :
        /\ enumr' = r.enum
        /\ pass' = p
        /\ first' = IF first = None /\ AtEnd(r.enum) /\ ~p.mixed
                     THEN Some([pat |-> pat, out |-> p.out, restarted |-> p.restarted])
                     ELSE first
        /\ UNCHANGED <<call, sesVars, bakVars>>

EngNext ==
    \E restart \in BOOLEAN, pat \in SearchExprs, cap \in BufferCaps, sizeFirst \in BOOLEAN :
        EngGetDirEnum(restart, pat, cap, sizeFirst)

SpecEnum == EngInit /\ [][EngNext]_vars

(***************************************************************************)
(* SpecCalls: the same enumerator and the same calls, with each call       *)
(* recorded by itself instead of the listing pass it belongs to.           *)
(***************************************************************************)
\* one get_dir_enum call on the enumerator
EngCall(restart, pat, cap, sizeFirst) ==
    \E r \in {EnumGetDirEnum(enumr, restart, pat, cap, sizeFirst)} :
        /\ enumr' = r.enum
        /\ call' = CallRecordOf(enumr.cur, restart, pat, cap, r.out)
        /\ UNCHANGED <<pass, first, sesVars, bakVars>>

\* the buffers of single calls: no room, room for one character, the
\* largest small buffer, and a roomy one
CallCaps == {0, 1, MaxCap, RoomyCap}

CallsNext ==
    \E restart \in BOOLEAN, pat \in SearchExprs, cap \in CallCaps, sizeFirst \in BOOLEAN :
        EngCall(restart, pat, cap, sizeFirst)

SpecCalls == EngInit /\ [][CallsNext]_vars

(***************************************************************************)
(* SpecSession: one ProjFs, the thread that owns it and the OS workers.    *)
(***************************************************************************)
SesSpecInit ==
    /\ SesInit
    /\ enumr = NewEnumerator(<<>>)
    /\ pass = NewPass(FALSE)
    /\ first = None
    /\ call = NoCall

SesNext ==
    \/ (StartPanic /\ UNCHANGED engVars)
    \/ (StartBegin /\ UNCHANGED engVars)
    \/ (StartFinish /\ UNCHANGED engVars)
    \/ (StopPanic /\ UNCHANGED engVars)
    \/ (Stop /\ UNCHANGED engVars)
    \/ (DropBegin /\ UNCHANGED engVars)
    \/ (DropFields /\ UNCHANGED engVars)
    \/ \E t \in Workers :
          \/ \E kind \in CallbackKinds, found \in BOOLEAN :
                Dispatch(t, kind, found) /\ UNCHANGED engVars
          \/ (EnterBody(t) /\ UNCHANGED engVars)
          \/ (ReturnFromBody(t) /\ UNCHANGED engVars)

SpecSession == SesSpecInit /\ [][SesNext]_vars

(***************************************************************************)
(* SpecBackend: the RegFs callbacks, each run under the backend's lock,    *)
(* over a table of enumerators.                                            *)
(***************************************************************************)
\* a backend in a session that runs, the OS's workers aside
BakRunning ==
    /\ BakInit
    /\ enumr = NewEnumerator(<<>>)
    /\ pass = NewPass(FALSE)
    /\ first = None
    /\ call = NoCall
    /\ state = "Running"
    /\ instance_handle = fs_helper
    /\ features = {"NOTIFY"}
    /\ root = [dir |-> "dir", marker |-> "valid", placeholder |-> TRUE]
    /\ os = [registered |-> TRUE, handle |-> fs_helper,
             callbacks |-> CreateCallbacks({"NOTIFY"})]
    /\ mainpc = "idle"
    /\ lastOp = OpRecord("start", "Ready", "ok",
                         {"ensure_root", "PrjStartVirtualizing", "set_instance_handle"})
    /\ ops = 1
    /\ dropped = FALSE
    /\ backendReleased = FALSE
    /\ setHandleCalls = 1
    /\ lock = None

BakSpecInit ==
    /\ BakRunning
    /\ workers = [t \in Workers |-> IdleWorker]

\* the search expressions and buffers of the backend's get_dir_enum calls
BackendSearchExprs == {"*", "A*"}

BackendCaps == {1, RoomyCap}

BakNext ==
    \/ \E id \in EnumIds, reqPath \in ReqPaths, enumFails \in BOOLEAN :
          StartDirEnum(id, reqPath, enumFails) /\ UNCHANGED <<engVars, sesVars>>
    \/ \E id \in EnumIds :
          EndDirEnum(id) /\ UNCHANGED <<engVars, sesVars>>
    \/ \E id \in EnumIds, restart \in BOOLEAN, pat \in BackendSearchExprs,
           cap \in BackendCaps, sizeFirst \in BOOLEAN :
          GetDirEnum(id, restart, pat, cap, sizeFirst) /\ UNCHANGED <<engVars, sesVars>>
    \/ \E kind \in NotificationKinds :
          Notify(kind) /\ UNCHANGED <<engVars, sesVars>>

SpecBackend == BakSpecInit /\ [][BakNext]_vars

(***************************************************************************)
(* SpecData: the callbacks that resolve a registry path, over every        *)
(* registry, path, byte range and outcome of the OS calls.                 *)
(***************************************************************************)
DataNext ==
    \/ \E id \in EnumIds, reqPath \in ReqPaths, enumFails \in BOOLEAN :
          StartDirEnum(id, reqPath, enumFails) /\ UNCHANGED <<engVars, sesVars>>
    \/ \E id \in EnumIds :
          EndDirEnum(id) /\ UNCHANGED <<engVars, sesVars>>
    \/ \E reqPath \in ReqPaths, writeOk \in BOOLEAN :
          GetPlaceholderInfo(reqPath, writeOk) /\ UNCHANGED <<engVars, sesVars>>
    \/ \E reqPath \in ReqPaths, range \in ByteRanges, oc \in OsOutcomes :
          GetFileData(reqPath, range[1], range[2], oc[1], oc[2])
              /\ UNCHANGED <<engVars, sesVars>>

SpecData == BakSpecInit /\ [][DataNext]_vars

(***************************************************************************)
(* What a listing should deliver, computed from the source sequence alone. *)
(***************************************************************************)
RECURSIVE Filtered(_, _)
Filtered(items, pat) ==
    IF items = <<>> THEN <<>>
    ELSE (IF PrjFileNameMatch(Head(items)[1], pat) THEN <<Head(items)>> ELSE <<>>)
         \o Filtered(Tail(items), pat)

RECURSIVE ValidOnly(_)
ValidOnly(items) ==
    IF items = <<>> THEN <<>>
    ELSE (IF NameIsInvalid(Head(items)[1]) THEN <<>> ELSE <<Head(items)>>)
         \o ValidOnly(Tail(items))

Infos(items) == [i \in 1..Len(items) |-> FileInfo(items[i])]

\* a pass run to the end of the sequence under one search expression
PassComplete == AtEnd(enumr) /\ pass.pat # None /\ ~pass.mixed

\* C1 as stated: a listing without restart, run to the end under one search
\* expression, delivered exactly the pattern-filtered source sequence.
C1_AllMatchingDelivered ==
    (PassComplete /\ ~pass.restarted)
        => pass.out = Infos(Filtered(enumr.start, pass.pat[1]))

\* C1 amended: a listing without restart, run to the end under one search
\* expression, delivered, in order and once each, exactly the entries of the
\* source sequence that match the expression and whose names the buffer
\* accepts.
C1_AcceptedMatchingDelivered ==
    (PassComplete /\ ~pass.restarted)
        => pass.out = Infos(ValidOnly(Filtered(enumr.start, pass.pat[1])))

\* a listing of three entries, two of them delivered, split over two calls
C1_Witness ==
    /\ PassComplete
    /\ ~pass.restarted
    /\ Len(enumr.start) = 3
    /\ Len(pass.out) = 2
    /\ pass.appends = "several"

\* C8: a listing begun by a restart flag and run to the end under one search
\* expression delivers the same entries as the first listing that ran to the
\* end under that expression, whatever the cursor was when the restart came.
C8_RestartReproducesListing ==
    (PassComplete /\ pass.restarted /\ first # None /\ first[1].pat = pass.pat[1])
        => pass.out = first[1].out

\* a restarted listing of at least two delivered entries, after a first
\* listing made without restart
C8_Witness ==
    /\ PassComplete
    /\ pass.restarted
    /\ first # None
    /\ ~first[1].restarted
    /\ first[1].pat = pass.pat[1]
    /\ Len(pass.out) >= 2
    /\ pass.appends = "several"

(***************************************************************************)
(* The session's claims, under SpecSession.                                *)
(***************************************************************************)
\* C2: set_instance_handle is called at most once, and whenever a worker is
\* in the body of get_placeholder_info or get_file_data for a path that
\* resolves (the body that hands fs_helper's handle to the OS), it has been
\* called and fs_helper holds the handle the OS issued.
C2_HandleSetBeforeUse ==
    /\ setHandleCalls <= 1
    /\ \A t \in Workers :
          (workers[t].pc = "body" /\ workers[t].kind \in HandleKinds /\ workers[t].found)
              => /\ setHandleCalls = 1
                 /\ fs_helper # DefaultHandle
                 /\ fs_helper = os.handle

\* C4: the lifecycle state changes only from Ready to Running, by a start
\* that succeeds, and from Running to Stopped, by stop or drop.
C4_LifecycleOrder ==
    [][state' # state =>
          \/ /\ state = "Ready"
             /\ state' = "Running"
             /\ lastOp'.op = "start"
             /\ lastOp'.outcome = "ok"
          \/ /\ state = "Running"
             /\ state' = "Stopped"
             /\ lastOp'.op \in {"stop", "drop"}]_vars

\* a session that ran and was stopped by its drop
C4_Witness ==
    /\ state = "Stopped"
    /\ lastOp.op = "drop"
    /\ lastOp.from = "Running"
    /\ setHandleCalls = 1

\* C5: a start() made in Running or Stopped, and a stop() made in Ready or
\* Stopped, panics, having prepared no root and called neither
\* PrjStartVirtualizing nor PrjStopVirtualizing, and leaves the lifecycle
\* state, the root, the registration and both handles as they were.
C5_WrongStatePanics ==
    [][(/\ ops' # ops
        /\ \/ lastOp'.op = "start" /\ state # "Ready"
           \/ lastOp'.op = "stop" /\ state # "Running")
          => /\ lastOp'.outcome = "panic"
             /\ lastOp'.effects = {}
             /\ UNCHANGED <<state, root, os, instance_handle, fs_helper>>]_vars

\* start() called on a running session panicked and the registration stands
C5_Witness ==
    /\ lastOp.op = "start"
    /\ lastOp.outcome = "panic"
    /\ lastOp.from = "Running"
    /\ state = "Running"
    /\ os.registered

\* C6: when start() has returned an error, from root preparation or from
\* PrjStartVirtualizing, the state is Ready, the session's instance handle is
\* the default, and set_instance_handle has not been called.
C6_FailedStartLeavesReady ==
    (lastOp.op = "start" /\ lastOp.outcome \in {"err_config", "err_platform"})
        => /\ state = "Ready"
           /\ instance_handle = DefaultHandle
           /\ setHandleCalls = 0
           /\ fs_helper = DefaultHandle
           /\ ~os.registered

\* a second start() attempt failed at registration over a prepared root
C6_Witness ==
    /\ lastOp.op = "start"
    /\ lastOp.outcome = "err_platform"
    /\ ops >= 2
    /\ root.placeholder

\* C7: once the session's backend reference is released the OS registration
\* is gone; a drop in Running called PrjStopVirtualizing and left the session
\* Stopped and unregistered, and a drop in Ready or Stopped called nothing.
C7_DropUnregisters ==
    /\ backendReleased => ~os.registered
    /\ (lastOp.op = "drop" /\ lastOp.from = "Running")
          => /\ lastOp.effects = {"PrjStopVirtualizing"}
             /\ ~os.registered
             /\ state = "Stopped"
    /\ (lastOp.op = "drop" /\ lastOp.from # "Running") => lastOp.effects = {}

\* a running session was dropped: unregistered, then its backend released
C7_Witness ==
    /\ dropped
    /\ backendReleased
    /\ lastOp.op = "drop"
    /\ lastOp.from = "Running"
    /\ ~os.registered

\* C10: the registered callback table holds a notification callback exactly
\* when the backend declares NOTIFY, and no worker ever runs notify on a
\* backend that does not declare it.
C10_NotifyOnlyIfDeclared ==
    /\ os.registered =>
          ((os.callbacks.NotificationCallback # None) <=> ("NOTIFY" \in features))
    /\ \A t \in Workers : workers[t].kind = "notify" => "NOTIFY" \in features

\* a backend declaring other features but not NOTIFY is registered and serving
C10_Witness ==
    /\ os.registered
    /\ "NOTIFY" \notin features
    /\ features # {}
    /\ os.callbacks.NotificationCallback = None
    /\ \E t \in Workers : workers[t].pc = "body"

(***************************************************************************)
(* The backend's claims, under SpecBackend.                                *)
(***************************************************************************)
\* C3: get_dir_enum and end_dir_enum called with an id that has no
\* enumerator in the table return one and the same error, E_INVALIDARG, and
\* never S_OK.
C3_UnknownIdSameError ==
    (last.op \in {"get_dir_enum", "end_dir_enum"} /\ ~last.known)
        => last.hr = "E_INVALIDARG"

\* C9: notify returns a failure HRESULT for PreDelete and PreRename and S_OK
\* for every other kind, and a notify call leaves the enumerator table and
\* the resource adapter handle as they were.
C9_NotifyVetoesOnlyPreDeleteRename ==
    [][last'.op = "notify" =>
          /\ (last'.hr # "S_OK") <=> (last'.kind \in {"PreDelete", "PreRename"})
          /\ last'.hr \in {"S_OK", "ERROR_ACCESS_DENIED", "STATUS_CANNOT_DELETE"}
          /\ UNCHANGED <<dir_enums, fs_helper>>]_vars

\* a rename was denied while an enumeration was part-way through its listing
C9_Witness ==
    /\ last.op = "notify"
    /\ last.kind = "PreRename"
    /\ last.hr = "STATUS_CANNOT_DELETE"
    /\ \E id \in EnumIds :
          /\ dir_enums[id] # None
          /\ dir_enums[id][1].cur > 1
          /\ ~AtEnd(dir_enums[id][1])

(***************************************************************************)
(* What a registry path names, read off the registry alone.                *)
(***************************************************************************)
\* the keys a path names: a hive, or a subkey chain below a hive
KeysNamed(reg, path) ==
    IF Len(path) = 0 THEN {}
    ELSE IF Len(path) = 1 THEN (IF path[1] \in HKEYS THEN {path} ELSE {})
    ELSE {k \in reg.keys : /\ Len(k) = Len(path)
                          /\ k[1] = path[1]
                          /\ k[1] \in HKEYS
                          /\ \A i \in 2..Len(k) : FoldName(k[i]) = FoldName(path[i])}

\* the values a path names: its last segment as a value of the key named by
\* the segments before it
ValuesNamed(reg, path) ==
    IF Len(path) < 2 THEN {}
    ELSE {v \in reg.values :
             /\ v.key \in KeysNamed(reg, SubSeq(path, 1, Len(path) - 1))
             /\ FoldName(v.name) = FoldName(path[Len(path)])}

\* a registry call on the way to the path fails with something else than
\* "not found"
AccessFails(reg, path) ==
    \/ KeysNamed(reg, path) \cap reg.denied # {}
    \/ Len(path) >= 2 /\ KeysNamed(reg, SubSeq(path, 1, Len(path) - 1)) \cap reg.denied # {}
    \/ ValuesNamed(reg, path) \cap reg.unreadable # {}

\* the files in the listing start_dir_enum makes of key k, as (path, size)
ListedFiles(reg, k) ==
    LET r == StartDirEnumResult(reg, k, FALSE)
    IN  IF r.tag = "Ok" /\ r.val.enum # None
        THEN {<<k \o <<item[1]>>, item[2][1]>> :
                 item \in {r.val.enum[1].start[i] : i \in 1..Len(r.val.enum[1].start)}
                           \ {it \in {r.val.enum[1].start[i] :
                                         i \in 1..Len(r.val.enum[1].start)} : it[2] = None}}
        ELSE {}

\* the paths of ReqPaths that are keys with a listing
ListedKeys == {k \in ReqPaths : k # <<>> /\ k # BadPath}

(***************************************************************************)
(* The claims on path resolution, under SpecData.                          *)
(***************************************************************************)
\* C11: for every value in a key's listing, the size the listing gives is
\* the size get_placeholder_info writes for the path key\value-name and the
\* number of bytes get_file_data delivers for it, also when the key has a
\* subkey of the value's name.
C11_SizesAgree ==
    \A k \in ListedKeys : \A f \in ListedFiles(registry, k) :
        (last.req.path = f[1] /\ last.hr = "S_OK") =>
            /\ last.op = "get_placeholder_info" =>
                   last.req.placeholder = Some([IsDirectory |-> FALSE, FileSize |-> f[2]])
            /\ last.op = "get_file_data" =>
                   /\ last.req.data # None
                   /\ Len(last.req.data[1].bytes) = f[2]

\* C12: for a path that names both a subkey and a value of one parent,
\* start_dir_enum, get_placeholder_info and get_file_data all take the path
\* for the key: a listing is started, a directory placeholder is written,
\* and no value bytes are delivered.
C12_KeyBeforeValue ==
    (/\ KeysNamed(registry, last.req.path) # {}
     /\ ValuesNamed(registry, last.req.path) # {}
     /\ ~AccessFails(registry, last.req.path)) =>
        /\ (last.op = "start_dir_enum" /\ ~last.req.enumFails) =>
               /\ last.hr = "S_OK"
               /\ dir_enums[last.id] # None
        /\ (last.op = "get_placeholder_info" /\ last.req.placeholder # None) =>
               last.req.placeholder[1].IsDirectory
        /\ last.op = "get_file_data" => last.req.data = None

\* a request path that names neither a key nor a value: an unknown hive, a
\* missing subkey chain or a missing value
NamesNothing(reg, path) ==
    /\ path # <<>>
    /\ path # BadPath
    /\ KeysNamed(reg, path) = {}
    /\ ValuesNamed(reg, path) = {}
    /\ ~AccessFails(reg, path)

\* C13: for a path that names neither a key nor a value, start_dir_enum and
\* get_placeholder_info return ERROR_FILE_NOT_FOUND, nothing is written, and
\* the failed start_dir_enum leaves the enumerator table as it was.
C13_NotFoundRegistersNothing ==
    [][(/\ last'.op \in {"start_dir_enum", "get_placeholder_info"}
        /\ NamesNothing(registry, last'.req.path)) =>
           /\ last'.hr = "ERROR_FILE_NOT_FOUND"
           /\ last'.req.placeholder = None
           /\ dir_enums' = dir_enums]_vars

\* a start_dir_enum for a missing subkey chain was refused while its id had
\* no enumerator and the other id had one
C13_Witness ==
    /\ last.op = "start_dir_enum"
    /\ last.req.path = <<HKCU, "z", "a">>
    /\ last.hr = "ERROR_FILE_NOT_FOUND"
    /\ dir_enums[last.id] = None
    /\ \E id \in EnumIds : dir_enums[id] # None

\* C14: get_placeholder_info writes (directory, 0) for a path that names a
\* key, (file, byte length of the value) for a path that names no key but a
\* value of the key its leading segments name, and otherwise returns
\* ERROR_FILE_NOT_FOUND and writes nothing, in particular when the leading
\* segments name no key.
C14_PlaceholderByResolution ==
    (/\ last.op = "get_placeholder_info"
     /\ last.req.path # BadPath
     /\ ~AccessFails(registry, last.req.path)) =>
        IF KeysNamed(registry, last.req.path) # {}
        THEN /\ last.req.placeholder = Some([IsDirectory |-> TRUE, FileSize |-> 0])
             /\ last.hr # "ERROR_FILE_NOT_FOUND"
        ELSE IF ValuesNamed(registry, last.req.path) # {}
        THEN /\ \E v \in ValuesNamed(registry, last.req.path) :
                   last.req.placeholder =
                       Some([IsDirectory |-> FALSE, FileSize |-> Len(v.bytes)])
             /\ last.hr # "ERROR_FILE_NOT_FOUND"
        ELSE /\ last.hr = "ERROR_FILE_NOT_FOUND"
             /\ last.req.placeholder = None

\* a file placeholder of one byte was written for a value, and before it a
\* listing was started
C14_Witness ==
    /\ last.op = "get_placeholder_info"
    /\ last.req.path = <<HKCU, "a*">>
    /\ last.hr = "S_OK"
    /\ last.req.placeholder = Some([IsDirectory |-> FALSE, FileSize |-> 1])
    /\ \E id \in EnumIds : dir_enums[id] # None

\* C15: for a path that names a value and a requested range inside the
\* value, get_file_data hands the OS the whole value at offset 0 (unless the
\* buffer cannot be allocated), so that the range asked for is covered and
\* the bytes delivered do not depend on the range.
C15_WholeValueAtZero ==
    (/\ last.op = "get_file_data"
     /\ ValuesNamed(registry, last.req.path) # {}
     /\ ~AccessFails(registry, last.req.path)) =>
        \A v \in ValuesNamed(registry, last.req.path) :
            last.req.byte_offset + last.req.length <= Len(v.bytes) =>
                \/ /\ last.hr = "E_OUTOFMEMORY"
                   /\ last.req.data = None
                \/ /\ last.req.data = Some([bytes |-> v.bytes, byte_offset |-> 0])
                   /\ last.req.data[1].byte_offset <= last.req.byte_offset
                   /\ last.req.byte_offset + last.req.length
                          <= last.req.data[1].byte_offset + Len(last.req.data[1].bytes)

\* the second byte of a two-byte value was asked for and both bytes were
\* delivered at offset 0
C15_Witness ==
    /\ last.op = "get_file_data"
    /\ last.req.byte_offset = 1
    /\ last.req.length = 1
    /\ last.hr = "S_OK"
    /\ last.req.data = Some([bytes |-> <<3, 3>>, byte_offset |-> 0])

\* the leading segments of a path
Parent(path) == SubSeq(path, 1, Len(path) - 1)

\* a registry call the operation makes for the path fails with a status
\* other than "not found": opening the key, reading the value, or
\* enumerating the subkeys and values of the opened key
RegistryCallFails(op, reg, path, enumFails) ==
    /\ path # <<>>
    /\ path # BadPath
    /\ CASE op = "start_dir_enum" ->
                \/ KeysNamed(reg, path) \cap reg.denied # {}
                \/ KeysNamed(reg, path) # {} /\ enumFails
          [] op = "get_placeholder_info" ->
                \/ KeysNamed(reg, path) \cap reg.denied # {}
                \/ /\ KeysNamed(reg, path) = {}
                   /\ \/ KeysNamed(reg, Parent(path)) \cap reg.denied # {}
                      \/ ValuesNamed(reg, path) \cap reg.unreadable # {}
          [] op = "get_file_data" ->
                \/ KeysNamed(reg, Parent(path)) \cap reg.denied # {}
                \/ ValuesNamed(reg, path) \cap reg.unreadable # {}
          [] OTHER -> FALSE

\* C16: in start_dir_enum, get_placeholder_info and get_file_data, a hive
\* name that does not exist is answered with ERROR_FILE_NOT_FOUND, and a
\* registry call failing with another status (here ERROR_ACCESS_DENIED) is
\* answered with a failure HRESULT that carries that status and is not
\* ERROR_FILE_NOT_FOUND.
C16_FailuresKeepTheirStatus ==
    (last.op \in {"start_dir_enum", "get_placeholder_info", "get_file_data"}
     /\ last.req.path # <<>> /\ last.req.path # BadPath) =>
        /\ last.req.path[1] \notin HKEYS => last.hr = "ERROR_FILE_NOT_FOUND"
        /\ RegistryCallFails(last.op, registry, last.req.path, last.req.enumFails) =>
               /\ IsErr(last.hr)
               /\ last.hr # "ERROR_FILE_NOT_FOUND"
               /\ HresultValue(last.hr).code = Win32Code("ERROR_ACCESS_DENIED")

(***************************************************************************)
(* The claims on listings and on the enumerator table, under SpecBackend.  *)
(***************************************************************************)
\* the elements of a sequence
Range(seq) == {seq[i] : i \in 1..Len(seq)}

\* ascending by name: no item is followed by one whose name is smaller
AscendingByName(seq) ==
    \A i, j \in 1..Len(seq) : i < j => ~CodesLess(Chars(seq[j][1]), Chars(seq[i][1]))

\* C17: start_dir_enum on the empty path gives its id an enumerator, at its
\* first item, over exactly the five hive names, each a directory, in
\* ascending order.
C17_RootListsHives ==
    (last.op = "start_dir_enum" /\ last.req.path = <<>>) =>
        /\ last.hr = "S_OK"
        /\ dir_enums[last.id] =
               Some([start |-> <<<<"HKEY_CLASSES_ROOT", None>>,
                                 <<"HKEY_CURRENT_CONFIG", None>>,
                                 <<"HKEY_CURRENT_USER", None>>,
                                 <<"HKEY_LOCAL_MACHINE", None>>,
                                 <<"HKEY_USERS", None>>>>,
                     cur |-> 1])
        /\ \A item \in Range(dir_enums[last.id][1].start) : FileInfo(item).IsDirectory
        /\ AscendingByName(dir_enums[last.id][1].start)

\* the root listing was started for an id that already had an enumerator,
\* which it replaced
C17_Witness ==
    /\ last.op = "start_dir_enum"
    /\ last.req.path = <<>>
    /\ last.known
    /\ dir_enums[last.id] # None
    /\ Len(dir_enums[last.id][1].start) = 5

\* the subkeys of key k as directories and its values as files
ExpectedItems(reg, k) ==
    {<<q[Len(q)], None>> : q \in {q \in reg.keys : Len(q) = Len(k) + 1 /\ Parent(q) = k}}
    \cup {<<v.name, Some(Len(v.bytes))>> : v \in {v \in reg.values : v.key = k}}

\* C18: start_dir_enum on a path that names a key (which opens and
\* enumerates) gives its id an enumerator, at its first item, whose
\* sequence holds each subkey as a directory and each value as a file of
\* its byte length, nothing else and nothing twice, ascending by name.
C18_KeyListsSubkeysAndValues ==
    (/\ last.op = "start_dir_enum"
     /\ KeysNamed(registry, last.req.path) # {}
     /\ ~RegistryCallFails("start_dir_enum", registry, last.req.path, last.req.enumFails)) =>
        /\ last.hr = "S_OK"
        /\ dir_enums[last.id] # None
        /\ dir_enums[last.id][1].cur = 1
        /\ \E k \in KeysNamed(registry, last.req.path) :
               /\ Range(dir_enums[last.id][1].start) = ExpectedItems(registry, k)
               /\ Len(dir_enums[last.id][1].start) = Cardinality(ExpectedItems(registry, k))
        /\ AscendingByName(dir_enums[last.id][1].start)

\* a key with a subkey and three values, one of them of the subkey's name,
\* was listed
C18_Witness ==
    /\ last.op = "start_dir_enum"
    /\ last.req.path = <<HKCU>>
    /\ dir_enums[last.id] # None
    /\ Len(dir_enums[last.id][1].start) = 4
    /\ <<"a", None>> \in Range(dir_enums[last.id][1].start)
    /\ <<"a", Some(2)>> \in Range(dir_enums[last.id][1].start)

\* C20: a start_dir_enum, get_dir_enum (with or without restart) or
\* end_dir_enum on one id leaves the enumerator of every other id, its
\* cursor and its captured sequence, as it was.
C20_OtherIdsUntouched ==
    [][\A b \in EnumIds :
          (last'.op \in {"start_dir_enum", "get_dir_enum", "end_dir_enum"} /\ last'.id # b)
              => dir_enums'[b] = dir_enums[b]]_vars

\* one id's enumeration was ended while the other id's enumerator stood
\* part-way through its listing
C20_Witness ==
    /\ last.op = "end_dir_enum"
    /\ last.known
    /\ \E b \in EnumIds \ {last.id} :
          /\ dir_enums[b] # None
          /\ dir_enums[b][1].cur > 1
          /\ ~AtEnd(dir_enums[b][1])

(***************************************************************************)
(* The claim on the backend's lock, under SpecSession.                     *)
(***************************************************************************)
\* the workers inside the body of one of the five data-path methods
InDataBody ==
    {t \in Workers : /\ workers[t].pc = "body"
                     /\ workers[t].kind \in {"start_dir_enum", "get_dir_enum",
                                              "end_dir_enum", "get_placeholder_info",
                                              "get_file_data"}}

\* C19: at any time at most one worker is inside the body of
\* start_dir_enum, get_dir_enum, end_dir_enum, get_placeholder_info or
\* get_file_data, and that worker holds the backend's lock from the start
\* of the body to its return.
C19_OneBodyAtATime ==
    /\ Cardinality(InDataBody) <= 1
    /\ \A t \in InDataBody : lock = Some(t)

\* one worker is inside get_file_data while another, called for
\* get_placeholder_info, waits for the lock
C19_Witness ==
    \E t, u \in Workers :
        /\ t # u
        /\ workers[t].pc = "body"
        /\ workers[t].kind = "get_file_data"
        /\ lock = Some(t)
        /\ workers[u].pc = "called"
        /\ workers[u].kind = "get_placeholder_info"

(***************************************************************************)
(* The claims on single get_dir_enum calls, under SpecCalls.               *)
(***************************************************************************)
\* the cursor position the last call's loop started from
CallStart == IF call.restart THEN 1 ELSE call.from

\* the items the last call's loop went past
CallPassed == SubSeq(enumr.start, CallStart, enumr.cur - 1)

\* the room the entries of a call took in the buffer
RECURSIVE CostOf(_)
CostOf(infos) == IF infos = <<>> THEN 0 ELSE EntryCost(Head(infos).name) + CostOf(Tail(infos))

\* C22 as stated: a call whose search expression matches no entry of the
\* sequence appends nothing, and a call with "*" appends every entry its
\* cursor goes past.
C22_StarDeliversAll ==
    /\ Filtered(enumr.start, call.search_expr) = <<>> => call.out = <<>>
    /\ call.search_expr = "*" => call.out = Infos(CallPassed)

\* C22 amended: a call whose search expression matches no entry of the
\* sequence appends nothing (and runs the cursor to the end), and a call
\* with "*" appends every entry its cursor goes past whose name the buffer
\* accepts; with a roomy buffer the cursor goes past all of them.
C22_StarDeliversAllAccepted ==
    /\ (call # NoCall /\ Filtered(enumr.start, call.search_expr) = <<>>) =>
           call.out = <<>> /\ AtEnd(enumr)
    /\ call.search_expr = "*" =>
           /\ call.out = Infos(ValidOnly(CallPassed))
           /\ call.cap = RoomyCap => AtEnd(enumr)

\* a restarted call with "*" and a roomy buffer on a sequence of three
\* entries, one of them refused, appended the other two
C22_Witness ==
    /\ call.search_expr = "*"
    /\ call.restart
    /\ call.cap = RoomyCap
    /\ Len(enumr.start) = 3
    /\ Len(call.out) = 2

\* C23: a call that stops before the end stops on a matching entry that did
\* not fit into what was left of the buffer, having appended only entries
\* before it; the next call without restart and with the same search
\* expression starts on that entry, appends it first if it appends anything
\* (the entry's name being acceptable), moves past it when it has appended
\* it, and otherwise leaves the cursor on it.
C23_FullEntryRetriedFirst ==
    [][/\ ~AtEnd(enumr') =>
            /\ PrjFileNameMatch(enumr'.start[enumr'.cur][1], call'.search_expr)
            /\ EntryCost(enumr'.start[enumr'.cur][1]) > call'.cap - CostOf(call'.out)
       /\ (/\ ~AtEnd(enumr) /\ call # NoCall
           /\ ~call'.restart /\ call'.search_expr = call.search_expr
           /\ ~NameIsInvalid(enumr.start[enumr.cur][1])) =>
              /\ call'.from = enumr.cur
              /\ call'.out # <<>> =>
                     /\ call'.out[1] = FileInfo(enumr.start[enumr.cur])
                     /\ enumr'.cur > enumr.cur
              /\ call'.out = <<>> => enumr'.cur = enumr.cur]_vars

\* a call without restart started on the second entry, where the call
\* before had stopped, and appended it
C23_Witness ==
    /\ ~call.restart
    /\ call.from = 2
    /\ call.out # <<>>
    /\ call.out[1] = FileInfo(enumr.start[2])
    /\ ~AtEnd(enumr)

\* C24: a matching entry whose name the buffer refuses does not end the
\* call: the call appends every matching entry with an acceptable name that
\* its cursor goes past, with a roomy buffer the cursor goes to the end of
\* the sequence, and without a restart the cursor never goes back to an
\* entry it has passed.
C24_RejectedEntrySkipped ==
    [][/\ call'.out = Infos(ValidOnly(Filtered(
                          SubSeq(enumr'.start,
                                 IF call'.restart THEN 1 ELSE call'.from,
                                 enumr'.cur - 1),
                          call'.search_expr)))
       /\ call'.cap = RoomyCap => AtEnd(enumr')
       /\ ~call'.restart => enumr'.cur >= enumr.cur]_vars

\* a call went past a refused entry and appended an entry that follows it
C24_Witness ==
    \E i, j \in 1..Len(enumr.start) :
        /\ CallStart <= i /\ i < j /\ j < enumr.cur
        /\ NameIsInvalid(enumr.start[i][1])
        /\ PrjFileNameMatch(enumr.start[i][1], call.search_expr)
        /\ FileInfo(enumr.start[j]) \in {call.out[k] : k \in 1..Len(call.out)}
        /\ FileInfo(enumr.start[i]) \notin {call.out[k] : k \in 1..Len(call.out)}

\* C25: once the cursor is at the end of the sequence, a call without the
\* restart flag, with any search expression and any buffer, appends nothing
\* and leaves the cursor at the end.
C25_EndStaysEnd ==
    [][(AtEnd(enumr) /\ ~call'.restart) =>
           /\ call'.out = <<>>
           /\ enumr'.cur = enumr.cur
           /\ AtEnd(enumr')]_vars

\* a call without restart, with "*" and a roomy buffer, found the cursor at
\* the end of a sequence of two entries or more and appended nothing
C25_Witness ==
    /\ Len(enumr.start) >= 2
    /\ ~call.restart
    /\ call.from = Len(enumr.start) + 1
    /\ call.search_expr = "*"
    /\ call.cap = RoomyCap
    /\ call.out = <<>>
    /\ AtEnd(enumr)

\* C28: a call that appends nothing has its cursor at the end of the
\* sequence, whatever the buffer.
C28_EmptyMeansComplete ==
    (call # NoCall /\ call.out = <<>>) => AtEnd(enumr)

(***************************************************************************)
(* SpecSnapshot: the enumeration callbacks while other programs change the *)
(* registry.                                                               *)
(***************************************************************************)
\* a registry with every value of reg at another length
Resized(reg) ==
    LET resize(v) == [v EXCEPT !.bytes = IF v.bytes = <<>> THEN <<1>> ELSE Tail(v.bytes)]
    IN  [reg EXCEPT !.values = {resize(v) : v \in reg.values},
                    !.unreadable = {resize(v) : v \in reg.unreadable}]

\* what the registry may hold from one callback to the next
ChangedRegistries == Registries \cup {Resized(reg) : reg \in Registries}

\* the registry is not the backend's: keys and values come, go and change
\* length between callbacks
RegistryChanges ==
    /\ registry' \in ChangedRegistries \ {registry}
    /\ UNCHANGED <<fs_helper, dir_enums, last>>

\* the directories listed while the registry changes
SnapshotPaths == {<<>>, <<HKCU>>, <<HKCU, "a">>}

SnapshotNext ==
    \/ \E id \in EnumIds, reqPath \in SnapshotPaths :
          StartDirEnum(id, reqPath, FALSE) /\ UNCHANGED <<engVars, sesVars>>
    \/ \E id \in EnumIds :
          EndDirEnum(id) /\ UNCHANGED <<engVars, sesVars>>
    \/ \E id \in EnumIds, restart \in BOOLEAN, pat \in BackendSearchExprs,
           cap \in BackendCaps, sizeFirst \in BOOLEAN :
          GetDirEnum(id, restart, pat, cap, sizeFirst) /\ UNCHANGED <<engVars, sesVars>>
    \/ RegistryChanges /\ UNCHANGED <<engVars, sesVars>>

SpecSnapshot == BakSpecInit /\ [][SnapshotNext]_vars

(***************************************************************************)
(* SpecTable: start_dir_enum, get_dir_enum and end_dir_enum on the OS's    *)
(* worker threads, statement by statement.                                 *)
(***************************************************************************)
\* a worker thread inside an enumeration callback: the callback, the
\* enumeration id, and what get_mut returned to it
TableWorker(pc, kind, id, ref) ==
    [pc |-> pc, kind |-> kind, found |-> FALSE, id |-> id, ref |-> ref]

IdleTableWorker == TableWorker("idle", "none", "none", None)

EnumKinds == {"start_dir_enum", "get_dir_enum", "end_dir_enum"}

\* the session's variables no callback writes
sesRest ==
    <<state, instance_handle, features, root, os, mainpc, lastOp, ops, dropped,
      backendReleased, setHandleCalls>>

\* get_dir_enum's guard let go as soon as get_mut has returned
GuardDroppedAfterLookup(holder) == None

\* the lock after get_dir_enum's get_mut: the MutexGuard is a temporary of
\* the match scrutinee and lives to the end of the match
GuardAfterLookup(holder) == holder

\* the OS calls an enumeration callback on a worker thread
TableCall(t, kind, id) ==
    /\ workers[t].pc = "idle"
    /\ workers' = [workers EXCEPT ![t] = TableWorker("called", kind, id, None)]
    /\ UNCHANGED <<lock, bakVars, sesRest, engVars>>

\* self.state.lock()
TableLock(t) ==
    /\ workers[t].pc = "called"
    /\ lock = None
    /\ lock' = Some(t)
    /\ workers' = [workers EXCEPT ![t].pc = "locked"]
    /\ UNCHANGED <<bakVars, sesRest, engVars>>

\* start_dir_enum's closure, under the guard taken at the top of the function
TableStart(t, reqPath) ==
    /\ workers[t].pc = "locked"
    /\ workers[t].kind = "start_dir_enum"
    /\ StartDirEnum(workers[t].id, reqPath, FALSE)
    /\ workers' = [workers EXCEPT ![t].pc = "done"]
    /\ UNCHANGED <<lock, sesRest, engVars>>

\* end_dir_enum: dir_enums.remove(&enumeration_id)
TableEnd(t) ==
    /\ workers[t].pc = "locked"
    /\ workers[t].kind = "end_dir_enum"
    /\ EndDirEnum(workers[t].id)
    /\ workers' = [workers EXCEPT ![t].pc = "done"]
    /\ UNCHANGED <<lock, sesRest, engVars>>

\* get_dir_enum: dir_enums.get_mut(&enumeration_id); the None arm returns
\* E_INVALIDARG
TableGetMut(t) ==
    /\ workers[t].pc = "locked"
    /\ workers[t].kind = "get_dir_enum"
    /\ lock' = GuardAfterLookup(lock)
    /\ IF dir_enums[workers[t].id] = None
       THEN /\ workers' = [workers EXCEPT ![t].pc = "done"]
            /\ last' = LastRecord("get_dir_enum", workers[t].id, FALSE, "none",
                                  "E_INVALIDARG", <<>>)
       ELSE /\ workers' = [workers EXCEPT ![t].pc = "found",
                                          ![t].ref = dir_enums[workers[t].id]]
            /\ UNCHANGED last
    /\ UNCHANGED <<fs_helper, dir_enums, registry, sesRest, engVars>>

\* get_dir_enum: the Some arm, dir_enum.get_dir_enum(..) through the
\* reference get_mut returned
TableAdvance(t, restart, search_expr, cap, sizeFirst) ==
    /\ workers[t].pc = "found"
    /\ \E r \in {EnumGetDirEnum(workers[t].ref[1], restart, search_expr, cap, sizeFirst)} :
          /\ dir_enums' = [dir_enums EXCEPT ![workers[t].id] = Some(r.enum)]
          /\ last' = LastRecord("get_dir_enum", workers[t].id, TRUE, "none", "S_OK", r.out)
    /\ workers' = [workers EXCEPT ![t].pc = "done"]
    /\ UNCHANGED <<lock, fs_helper, registry, sesRest, engVars>>

\* the callback returns; its guard is dropped
TableReturn(t) ==
    /\ workers[t].pc = "done"
    /\ lock' = IF lock = Some(t) THEN None ELSE lock
    /\ workers' = [workers EXCEPT ![t] = IdleTableWorker]
    /\ UNCHANGED <<bakVars, sesRest, engVars>>

\* the directories listed by the concurrent callbacks: the root, and a key
\* that some registries have not
TablePaths == {<<>>, <<HKCU, "a">>}

TableInit ==
    /\ BakRunning
    /\ workers = [t \in Workers |-> IdleTableWorker]

TableNext ==
    \/ \E t \in Workers, kind \in EnumKinds, id \in EnumIds : TableCall(t, kind, id)
    \/ \E t \in Workers : TableLock(t)
    \/ \E t \in Workers, reqPath \in TablePaths : TableStart(t, reqPath)
    \/ \E t \in Workers : TableEnd(t)
    \/ \E t \in Workers : TableGetMut(t)
    \/ \E t \in Workers, restart \in BOOLEAN :
          TableAdvance(t, restart, "*", 1, FALSE)
    \/ \E t \in Workers : TableReturn(t)

SpecTable == TableInit /\ [][TableNext]_vars

(***************************************************************************)
(* The claims on the table of enumerators, under SpecBackend.              *)
(***************************************************************************)
\* C26 as stated: after every callback, an id has an enumerator in the table
\* exactly when the most recent start_dir_enum or end_dir_enum for it was a
\* start_dir_enum that succeeded.
C26_SessionIffLastStartSucceeded ==
    [][\A id \in EnumIds :
          (dir_enums'[id] # None) <=>
              IF last'.op = "start_dir_enum" /\ last'.id = id THEN last'.hr = "S_OK"
              ELSE IF last'.op = "end_dir_enum" /\ last'.id = id THEN FALSE
              ELSE dir_enums[id] # None]_vars

\* C26 amended: a start_dir_enum that succeeds leaves the id with one
\* enumerator, a new one with its cursor at the start; a start_dir_enum
\* that fails leaves the table as it was, an enumerator the id already had
\* included; end_dir_enum leaves the id without an enumerator; no other
\* callback, get_dir_enum and end_dir_enum on an unknown id among them, gives
\* an enumerator to an id that had none or takes one away.
C26_SessionIffStartedAndNotEnded ==
    [][\A id \in EnumIds :
          IF last'.op = "start_dir_enum" /\ last'.id = id
          THEN IF last'.hr = "S_OK"
               THEN /\ dir_enums'[id] # None
                    /\ dir_enums'[id][1].cur = 1
               ELSE dir_enums'[id] = dir_enums[id]
          ELSE IF last'.op = "end_dir_enum" /\ last'.id = id
               THEN dir_enums'[id] = None
          ELSE (dir_enums'[id] # None) <=> (dir_enums[id] # None)]_vars

\* a start_dir_enum on a key that does not exist came for an id that had an
\* enumerator with its cursor past the first entry; the id still has it
C26_Witness ==
    /\ last.op = "start_dir_enum"
    /\ last.known
    /\ last.hr = "ERROR_FILE_NOT_FOUND"
    /\ dir_enums[last.id] # None
    /\ dir_enums[last.id][1].cur > 1

(***************************************************************************)
(* The claim on a changing registry, under SpecSnapshot.                   *)
(***************************************************************************)
\* sub is what is left of seq after taking some of its elements out
RECURSIVE IsSubSeq(_, _)
IsSubSeq(sub, seq) ==
    IF sub = <<>> THEN TRUE
    ELSE IF seq = <<>> THEN FALSE
    ELSE IF Head(sub) = Head(seq) THEN IsSubSeq(Tail(sub), Tail(seq))
    ELSE IsSubSeq(sub, Tail(seq))

\* C27: the items of an enumerator are those its start_dir_enum listed: a
\* change of the registry changes no enumerator in the table, no callback
\* other than a start_dir_enum for the same id changes the names, kinds,
\* sizes or order of an enumerator's items, and the entries a get_dir_enum
\* appends, with or without the restart flag, are entries of those items in
\* their order.
C27_ListingIsSnapshot ==
    [][\A id \in EnumIds :
          /\ registry' # registry => dir_enums'[id] = dir_enums[id]
          /\ (/\ dir_enums[id] # None /\ dir_enums'[id] # None
              /\ ~(last'.op = "start_dir_enum" /\ last'.id = id)) =>
                 dir_enums'[id][1].start = dir_enums[id][1].start
          /\ (/\ registry' = registry /\ dir_enums[id] # None
              /\ last'.op = "get_dir_enum" /\ last'.id = id) =>
                 /\ dir_enums'[id] # None
                 /\ IsSubSeq(last'.out, Infos(dir_enums[id][1].start))]_vars

\* a get_dir_enum appended the entry of a two-byte value as a file of two
\* bytes while the registry holds no value of two bytes any more
C27_Witness ==
    /\ last.op = "get_dir_enum"
    /\ \E k \in 1..Len(last.out) :
           /\ ~last.out[k].IsDirectory /\ last.out[k].FileSize = 2
    /\ \A v \in registry.values : Len(v.bytes) # 2

(***************************************************************************)
(* The claim on concurrent callbacks, under SpecTable.                     *)
(***************************************************************************)
\* C21: a get_dir_enum that has found an enumerator holds the lock until it
\* has advanced it, the table still holds for its id the enumerator it
\* found, and every other worker is outside the locked part of its
\* callback, an end_dir_enum for the same id included; a get_dir_enum that
\* comes after the removal finds nothing and returns E_INVALIDARG.
C21_GetBeforeOrAfterEnd ==
    \A t \in Workers :
        /\ workers[t].pc = "found" =>
               /\ lock = Some(t)
               /\ workers[t].ref # None
               /\ dir_enums[workers[t].id] = workers[t].ref
               /\ \A u \in Workers \ {t} : workers[u].pc \in {"idle", "called"}
        /\ (workers[t].pc = "done" /\ workers[t].kind = "get_dir_enum") =>
               /\ lock = Some(t)
               /\ last.op = "get_dir_enum" /\ last.id = workers[t].id
               /\ IF last.known
                  THEN last.hr = "S_OK" /\ dir_enums[workers[t].id] # None
                  ELSE last.hr = "E_INVALIDARG" /\ last.out = <<>>
                       /\ dir_enums[workers[t].id] = None
        /\ (workers[t].pc = "done" /\ workers[t].kind = "end_dir_enum") =>
               /\ lock = Some(t)
               /\ dir_enums[workers[t].id] = None

\* a get_dir_enum has found the enumerator of an id while an end_dir_enum
\* for the same id, called on another thread, waits for the lock
C21_Witness ==
    \E t, u \in Workers :
        /\ t # u
        /\ workers[t].pc = "found"
        /\ workers[t].kind = "get_dir_enum"
        /\ workers[u].pc = "called"
        /\ workers[u].kind = "end_dir_enum"
        /\ workers[u].id = workers[t].id

====
